---- MODULE Spec2Model ----
(***************************************************************************)
(* golog: a process-wide leveled logger.  Producer goroutines call         *)
(* Debug/Info/Warn/Error/Fatal, which put a Message on the bounded channel *)
(* `queue`; daemon goroutines take messages off the channel and write them *)
(* to the current destination `logger` under the mutex `lock`.             *)
(*                                                                         *)
(* The repository holds two revisions of the package.  Spec models         *)
(* src/golog.go (Start/Stop, termsig, has_daemon, unconditional write in   *)
(* the daemon).  SpecPart000 models src/unnamed/part_000 (one daemon that  *)
(* never stops and re-checks the threshold before it writes).              *)
(*                                                                         *)
(* Goroutines interleave at the granularity of channel operations, mutex   *)
(* operations and reads or writes of the unsynchronised package variables. *)
(***************************************************************************)
EXTENDS Integers, Sequences, FiniteSets, TLC

\* ---- Level (src/golog.go:13-22) ----
DEBUG == 0
INFO == 1
WARN == 2
ERROR == 3
FATAL == 4
INVALID == -1

\* level_string, indexed from 0 as in Go.
level_string == [l \in DEBUG..FATAL |->
                   CASE l = DEBUG -> "DEBUG"
                     [] l = INFO  -> "INFO"
                     [] l = WARN  -> "WARN"
                     [] l = ERROR -> "ERROR"
                     [] l = FATAL -> "FATAL"]

\* level_string as strings of characters, for ToLevel.
level_chars == [l \in DEBUG..FATAL |->
                  CASE l = DEBUG -> <<"D", "E", "B", "U", "G">>
                    [] l = INFO  -> <<"I", "N", "F", "O">>
                    [] l = WARN  -> <<"W", "A", "R", "N">>
                    [] l = ERROR -> <<"E", "R", "R", "O", "R">>
                    [] l = FATAL -> <<"F", "A", "T", "A", "L">>]

\* Capacity of `queue`, of `quit_signal` and of `termsig`.
QueueCap == 32
QuitCap == 1
TermCap == 1

\* ---- bounds of the model ----
\* number of application goroutines that call the package
NumThreads == 2
\* logging calls made in total
MaxCalls == 2
\* administrative calls (SetLogLevel, SetPrefix, Open, OpenFd, Rotate, Start,
\* Stop) made in total
MaxAdmin == 2
\* daemon goroutines that can be launched (init's one included)
MaxDaemons == 2
\* slots the start-up backlog leaves free in the queue
BacklogSlack == 1
\* administrative calls made when the application starts with a backlog
BacklogAdmin == 1
\* how far above FATAL an argument of SetLogLevel may lie
LevelOver == 1
\* logging calls and administrative calls made by an application that opens
\* and rotates its log file
RotateCalls == 1
RotateAdmin == 3
\* logging calls and Start/Stop calls made by an application that stops and
\* restarts the daemon
RestartCalls == 1
RestartAdmin == 3

Threads == 1..NumThreads
Daemons == 1..MaxDaemons

\* the goroutine that logged before the application goroutines started
MainThread == 0

\* Arguments SetLogLevel is called with: Level is an int, so INVALID and
\* values above FATAL are accepted as well.
LevelArgs == INVALID..(FATAL + LevelOver)

\* Arguments of SetPrefix, of Open and of OpenFd.
PrefixArgs == {"pre"}
PathArgs == {"a.log"}
Stderr == 0
Stdout == 1
FdArgs == {Stdout}
\* first descriptor os.OpenFile hands out
FirstFileFd == 2

\* Ghost value of Message.seen for a message built without a filter check.
NoRead == -2
\* Ghost value of Message.dst for a message of a logging call.
NoDst == -1
NoMsg == [src |-> -1, seq |-> 0, level |-> INVALID, seen |-> NoRead,
          text |-> "", dst |-> NoDst]

\* Outcome of a call.  val: "nil" or "err" returned by Open and Rotate, or
\* "dropped" for a logging call that returned at its threshold test; then
\* level, thr and full are the call's level, the threshold it read and
\* whether the queue was full.
Outcome(v, l, thr, f) == [val |-> v, level |-> l, thr |-> thr, full |-> f]
Returned(v) == Outcome(v, INVALID, INVALID, FALSE)

\* `level` before ToLevel is called.
NotParsed == -2

\* exitCode while the process runs; Go's exit code of a panic.
NotExited == -1
PanicCode == 2

VARIABLES
  logLevel,     \* var logLevel
  queue,        \* chan *Message, capacity QueueCap
  quit_signal,  \* number of bytes buffered in chan quit_signal
  termsig,      \* number of bytes buffered in chan termsig
  logger,       \* *FileLog: [writer, path]
  epoch,        \* ghost: how many times logger has been assigned
  prefix,       \* var prefix
  lock,         \* holder of sync.Mutex lock: 0 free, t > 0 thread, -d daemon
  has_daemon,   \* var has_daemon
  daemons,      \* daemon goroutines: [pc, msg]
  pc,           \* position of each application goroutine
  pending,      \* the Message a goroutine is sending
  newfd,        \* Rotate's local newfd
  ret,          \* outcome of the goroutine's last call that had one
  sent,         \* messages each goroutine has put on the queue
  calls,        \* logging calls the application has still to make
  admins,       \* administrative calls the application has still to make
  nextFd,       \* next descriptor os.OpenFile returns
  written,      \* lines written by the daemons, in order
  diag,         \* lines Open printed directly on os.Stderr
  exitCode,     \* NotExited, or the process's exit code
  exiter,       \* the goroutine that called os.Exit
  str,          \* the argument ToLevel is called with
  level         \* NotParsed, or what ToLevel returned

vars == <<logLevel, queue, quit_signal, termsig, logger, epoch, prefix, lock,
          has_daemon, daemons, pc, pending, newfd, ret, sent, calls, admins,
          nextFd, written, diag, exitCode, exiter, str, level>>

chans == <<queue, quit_signal, termsig>>
dest == <<logger, epoch, prefix, nextFd, diag>>
procs == <<exitCode, exiter>>
local == <<pending, newfd>>
parse == <<str, level>>

Running == exitCode = NotExited

\* NewFd (src/golog.go:54-59)
NewFd(w) == [writer |-> w, path |-> ""]

\* Mutant: the Message carries the threshold in place of its level.
MutMessageLevelOfThreshold(t, l, thr) ==
  [src |-> t, seq |-> sent[t] + 1, level |-> thr, seen |-> thr,
   text |-> "msg", dst |-> NoDst]

\* The Message literal every logging function builds, its text left
\* abstract.  `seen` and `dst` are ghost fields: the threshold the call site
\* compared against, and (for a message of Open or Rotate) the epoch of the
\* destination the call makes or leaves current.
Message(t, l, thr) == [src |-> t, seq |-> sent[t] + 1, level |-> l, seen |-> thr,
                       text |-> "msg", dst |-> NoDst]

\* The Message that Infof or Errorf builds inside Open and Rotate.
Note(t, l, txt, e) == [Message(t, l, logLevel) EXCEPT !.text = txt, !.dst = e]

\* Mutant: the threshold test written with >=.
MutFilteredOrEqual(l) == logLevel >= l

\* The test `logLevel > L` that opens Debug/Info/Warn/Error and their
\* formatted variants.
Filtered(l) == logLevel > l

\* Mutant: a channel that never fills.
MutCanSendAlways == TRUE

\* A channel send `queue <- m` can proceed.
CanSend == Len(queue) < QueueCap

\* Messages the main goroutine logged at the default threshold before the
\* daemon launched by init() was first scheduled.
Backlog(n) == [i \in 1..n |-> [src |-> MainThread, seq |-> i, level |-> INFO,
                               seen |-> INFO, text |-> "msg", dst |-> NoDst]]

\* State after package initialisation: the var declarations have run and
\* init() has launched (not yet scheduled) the first daemon; q is what the
\* queue holds, and the application is about to make c logging calls and a
\* administrative calls, and to call ToLevel(s).
InitState(q, c, a, s) ==
  /\ logLevel = INFO
  /\ queue = q
  /\ quit_signal = 0
  /\ termsig = 0
  /\ logger = NewFd(Stderr)
  /\ epoch = 0
  /\ prefix = ""
  /\ lock = 0
  /\ has_daemon = FALSE
  /\ daemons = [d \in Daemons |-> IF d = 1 THEN [pc |-> "launched", msg |-> NoMsg]
                                          ELSE [pc |-> "none", msg |-> NoMsg]]
  /\ pc = [t \in Threads |-> "idle"]
  /\ pending = [t \in Threads |-> NoMsg]
  /\ newfd = [t \in Threads |-> -1]
  /\ ret = [t \in Threads |-> Returned("none")]
  /\ sent = [t \in Threads |-> 0]
  /\ calls = c
  /\ admins = a
  /\ nextFd = FirstFileFd
  /\ written = << >>
  /\ diag = 0
  /\ exitCode = NotExited
  /\ exiter = -1
  /\ str = s
  /\ level = NotParsed

\* The application does not call ToLevel.
InitWith(q, c, a) == InitState(q, c, a, << >>)

Init == InitWith(<< >>, MaxCalls, MaxAdmin)

\* The application opens and rotates its log file.
InitRotate == InitWith(<< >>, RotateCalls, RotateAdmin)

\* The application stops and restarts the daemon.
InitRestart == InitWith(<< >>, RestartCalls, RestartAdmin)

\* The application starts with the queue nearly full.
InitBacklog == InitWith(Backlog(QueueCap - BacklogSlack), MaxCalls, BacklogAdmin)

\* ------------------------------------------------------------------------
\* ToLevel
\* ------------------------------------------------------------------------

\* The letters of the level names and one letter ("x") of none, as
\* (lower case, upper case) pairs of the ASCII range.
AsciiCase ==
  {<<"a", "A">>, <<"b", "B">>, <<"d", "D">>, <<"e", "E">>, <<"f", "F">>,
   <<"g", "G">>, <<"i", "I">>, <<"l", "L">>, <<"n", "N">>, <<"o", "O">>,
   <<"r", "R">>, <<"t", "T">>, <<"u", "U">>, <<"w", "W">>, <<"x", "X">>}

\* unicode.ToUpper maps more than the ASCII letters: U+0131 (LATIN SMALL
\* LETTER DOTLESS I) has the upper case "I".
UnicodeCase == AsciiCase \cup {<<"U+0131", "I">>}

\* The characters of the inputs: the letters above and a digit.
Chars == {p[1] : p \in UnicodeCase} \cup {p[2] : p \in UnicodeCase} \cup {"1"}

\* unicode.ToUpper, which strings.ToUpper applies to every character.
ToUpperRune(c) ==
  IF \E p \in UnicodeCase : p[1] = c
    THEN (CHOOSE p \in UnicodeCase : p[1] = c)[2]
    ELSE c

\* strings.ToUpper
ToUpper(s) == [i \in 1..Len(s) |-> ToUpperRune(s[i])]

\* ToLevel: the first index of level_string whose name is ToUpper(s), or -1.
ToLevel(s) ==
  LET up == ToUpper(s)
      hits == {l \in DOMAIN level_chars : level_chars[l] = up}
  IN IF hits = {} THEN INVALID
     ELSE CHOOSE l \in hits : \A m \in hits : l <= m

\* The spellings of a name: each character in any form that ToUpper brings
\* to the name's character.
RECURSIVE Spellings(_)
Spellings(nm) ==
  IF nm = << >> THEN {<< >>}
  ELSE {<<c>> \o r : c \in {x \in Chars : ToUpperRune(x) = Head(nm)},
                     r \in Spellings(Tail(nm))}

\* The proper prefixes of s, the empty string included.
Prefixes(s) == {SubSeq(s, 1, k) : k \in 0..(Len(s) - 1)}

\* Characters put before or after a spelling.
ExtraChars == {"x", "E", "1"}

\* Arguments ToLevel is called with: every spelling of every level name,
\* its proper prefixes, and the spelling with one more character before or
\* after it.
Inputs ==
  LET names == UNION {Spellings(level_chars[l]) : l \in DOMAIN level_chars}
  IN names \cup UNION {Prefixes(v) : v \in names}
           \cup {<<c>> \o v : c \in ExtraChars, v \in names}
           \cup {v \o <<c>> : c \in ExtraChars, v \in names}

\* The application calls ToLevel(str).
InitToLevel == \E s \in Inputs : InitState(<< >>, 0, 0, s)

\* level := ToLevel(str)
ToLevelCall ==
  /\ level = NotParsed
  /\ level' = ToLevel(str)
  /\ UNCHANGED <<logLevel, chans, dest, lock, has_daemon, daemons, pc, local,
                 ret, sent, calls, admins, written, procs, str>>

\* ------------------------------------------------------------------------
\* Logging calls
\* ------------------------------------------------------------------------

CanLog(t) == Running /\ pc[t] = "idle" /\ calls > 0
CanAdmin(t) == Running /\ pc[t] = "idle" /\ admins > 0

\* Debug/Info/Warn/Error up to the channel send: the threshold test, then the
\* Message is built.  The formatted variants differ in the text only.
logAt(t, l) ==
  /\ CanLog(t)
  /\ calls' = calls - 1
  /\ IF Filtered(l)
       THEN /\ ret' = [ret EXCEPT ![t] = Outcome("dropped", l, logLevel, ~CanSend)]
            /\ UNCHANGED <<pc, pending>>
       ELSE /\ pc' = [pc EXCEPT ![t] = "send"]
            /\ pending' = [pending EXCEPT ![t] = Message(t, l, logLevel)]
            /\ UNCHANGED ret
  /\ UNCHANGED <<logLevel, chans, dest, lock, has_daemon, daemons, newfd, sent,
                 admins, written, procs, parse>>

Error(t) == logAt(t, ERROR)
Warn(t) == logAt(t, WARN)
Info(t) == logAt(t, INFO)
Debug(t) == logAt(t, DEBUG)

\* Fatal/Fatalf up to the channel send: no threshold test.
Fatal(t) ==
  /\ CanLog(t)
  /\ calls' = calls - 1
  /\ pc' = [pc EXCEPT ![t] = "fatal_send"]
  /\ pending' = [pending EXCEPT ![t] = Message(t, FATAL, NoRead)]
  /\ UNCHANGED <<logLevel, chans, dest, lock, has_daemon, daemons, newfd, ret,
                 sent, admins, written, procs, parse>>

\* Where a goroutine continues after its channel send.
AfterSend(p) ==
  CASE p = "send"         -> "idle"
    [] p = "fatal_send"   -> "fatal_wait"
    [] p = "open_send"    -> "open_ok"
    [] p = "rot_send_err" -> "rot_fail"
    [] p = "rot_send_ok"  -> "rot_swap"

SendPcs == {"send", "fatal_send", "open_send", "rot_send_err", "rot_send_ok"}

\* queue <- &Message{...}: blocks while the channel is full.
Enqueue(t) ==
  /\ Running
  /\ pc[t] \in SendPcs
  /\ CanSend
  /\ queue' = Append(queue, pending[t])
  /\ sent' = [sent EXCEPT ![t] = @ + 1]
  /\ pending' = [pending EXCEPT ![t] = NoMsg]
  /\ pc' = [pc EXCEPT ![t] = AfterSend(pc[t])]
  /\ UNCHANGED <<logLevel, quit_signal, termsig, dest, lock, has_daemon,
                 daemons, newfd, ret, calls, admins, written, procs, parse>>

\* <-quit_signal; os.Exit(1) in Fatal/Fatalf: the process ends, every
\* goroutine with it.
FatalExit(t) ==
  /\ Running
  /\ pc[t] = "fatal_wait"
  /\ quit_signal > 0
  /\ quit_signal' = quit_signal - 1
  /\ exitCode' = 1
  /\ exiter' = t
  /\ pc' = [pc EXCEPT ![t] = "exited"]
  /\ UNCHANGED <<logLevel, queue, termsig, dest, lock, has_daemon, daemons,
                 local, ret, sent, calls, admins, written, parse>>

\* ------------------------------------------------------------------------
\* Administrative calls
\* ------------------------------------------------------------------------

\* SetLogLevel: a plain write of logLevel.
SetLogLevel(t, l) ==
  /\ CanAdmin(t)
  /\ admins' = admins - 1
  /\ logLevel' = l
  /\ UNCHANGED <<chans, dest, lock, has_daemon, daemons, pc, local, ret, sent,
                 calls, written, procs, parse>>

\* SetPrefix: a plain write of prefix, without the lock.
SetPrefix(t, p) ==
  /\ CanAdmin(t)
  /\ admins' = admins - 1
  /\ prefix' = p
  /\ UNCHANGED <<logLevel, chans, logger, epoch, nextFd, diag, lock, has_daemon,
                 daemons, pc, local, ret, sent, calls, written, procs, parse>>

\* OpenFd: a plain write of logger, without the lock.
OpenFd(t, fd) ==
  /\ CanAdmin(t)
  /\ admins' = admins - 1
  /\ logger' = NewFd(fd)
  /\ epoch' = epoch + 1
  /\ UNCHANGED <<logLevel, chans, prefix, nextFd, diag, lock, has_daemon,
                 daemons, pc, local, ret, sent, calls, written, procs, parse>>

\* Open from lock.Lock() on: NewFile(f) fails or succeeds; on failure the
\* error is printed on os.Stderr; on success logger is replaced and
\* Infof("Log ready.") runs up to its channel send.
Open(t, f, ok) ==
  /\ CanAdmin(t)
  /\ lock = 0
  /\ lock' = t
  /\ admins' = admins - 1
  /\ IF ~ok
       THEN /\ diag' = diag + 1
            /\ pc' = [pc EXCEPT ![t] = "open_fail"]
            /\ UNCHANGED <<logger, epoch, nextFd, pending>>
       ELSE /\ logger' = [writer |-> nextFd, path |-> f]
            /\ epoch' = epoch + 1
            /\ nextFd' = nextFd + 1
            /\ diag' = diag
            /\ IF Filtered(INFO)
                 THEN /\ pc' = [pc EXCEPT ![t] = "open_ok"]
                      /\ UNCHANGED pending
                 ELSE /\ pc' = [pc EXCEPT ![t] = "open_send"]
                      /\ pending' = [pending EXCEPT ![t] =
                                        Note(t, INFO, "Log ready.", epoch + 1)]
  /\ UNCHANGED <<logLevel, chans, prefix, has_daemon, daemons, newfd, ret, sent,
                 calls, written, procs, parse>>

\* Mutant: Open unlocks on its success path only.
MutOpenReturnNoDefer(t) ==
  /\ Running
  /\ pc[t] \in {"open_ok", "open_fail"}
  /\ lock' = IF pc[t] = "open_ok" THEN 0 ELSE lock
  /\ pc' = [pc EXCEPT ![t] = "idle"]
  /\ ret' = [ret EXCEPT ![t] = Returned(IF pc[t] = "open_ok" THEN "nil" ELSE "err")]
  /\ UNCHANGED <<logLevel, chans, dest, has_daemon, daemons, local, sent,
                 calls, admins, written, procs, parse>>

\* Open returns: the deferred lock.Unlock(), then nil or err.
OpenReturn(t) ==
  /\ Running
  /\ pc[t] \in {"open_ok", "open_fail"}
  /\ lock' = 0
  /\ pc' = [pc EXCEPT ![t] = "idle"]
  /\ ret' = [ret EXCEPT ![t] = Returned(IF pc[t] = "open_ok" THEN "nil" ELSE "err")]
  /\ UNCHANGED <<logLevel, chans, dest, has_daemon, daemons, local, sent,
                 calls, admins, written, procs, parse>>

\* Mutant: Rotate without the test of logger.path.
MutRotateNoPathTest(t, ok) ==
  /\ CanAdmin(t)
  /\ lock = 0
  /\ lock' = t
  /\ admins' = admins - 1
  /\ IF ~ok
       THEN /\ UNCHANGED <<nextFd, newfd>>
            /\ IF Filtered(ERROR)
                 THEN /\ pc' = [pc EXCEPT ![t] = "rot_fail"]
                      /\ UNCHANGED pending
                 ELSE /\ pc' = [pc EXCEPT ![t] = "rot_send_err"]
                      /\ pending' = [pending EXCEPT ![t] =
                                        Note(t, ERROR, "Reopen log file", epoch)]
       ELSE /\ newfd' = [newfd EXCEPT ![t] = nextFd]
            /\ nextFd' = nextFd + 1
            /\ IF Filtered(INFO)
                 THEN /\ pc' = [pc EXCEPT ![t] = "rot_swap"]
                      /\ UNCHANGED pending
                 ELSE /\ pc' = [pc EXCEPT ![t] = "rot_send_ok"]
                      /\ pending' = [pending EXCEPT ![t] =
                                        Note(t, INFO, "Reopened log file", epoch + 1)]
  /\ UNCHANGED <<logLevel, chans, logger, epoch, prefix, diag, has_daemon,
                 daemons, ret, sent, calls, written, procs, parse>>

\* Rotate from lock.Lock() on: Sync, then nothing for a destination without
\* a path; else os.OpenFile(logger.path) fails (Errorf up to its channel
\* send) or succeeds (Infof up to its channel send; the swap comes after).
Rotate(t, ok) ==
  /\ CanAdmin(t)
  /\ lock = 0
  /\ lock' = t
  /\ admins' = admins - 1
  /\ IF logger.path = ""
       THEN /\ pc' = [pc EXCEPT ![t] = "rot_ok"]
            /\ UNCHANGED <<nextFd, pending, newfd>>
       ELSE IF ~ok
         THEN /\ UNCHANGED <<nextFd, newfd>>
              /\ IF Filtered(ERROR)
                   THEN /\ pc' = [pc EXCEPT ![t] = "rot_fail"]
                        /\ UNCHANGED pending
                   ELSE /\ pc' = [pc EXCEPT ![t] = "rot_send_err"]
                        /\ pending' = [pending EXCEPT ![t] =
                                          Note(t, ERROR, "Reopen log file", epoch)]
         ELSE /\ newfd' = [newfd EXCEPT ![t] = nextFd]
              /\ nextFd' = nextFd + 1
              /\ IF Filtered(INFO)
                   THEN /\ pc' = [pc EXCEPT ![t] = "rot_swap"]
                        /\ UNCHANGED pending
                   ELSE /\ pc' = [pc EXCEPT ![t] = "rot_send_ok"]
                        /\ pending' = [pending EXCEPT ![t] =
                                          Note(t, INFO, "Reopened log file", epoch + 1)]
  /\ UNCHANGED <<logLevel, chans, logger, epoch, prefix, diag, has_daemon,
                 daemons, ret, sent, calls, written, procs, parse>>

\* Rotate: newlog := NewFd(newfd); newlog.path = logger.path; logger = newlog
RotateSwap(t) ==
  /\ Running
  /\ pc[t] = "rot_swap"
  /\ logger' = [writer |-> newfd[t], path |-> logger.path]
  /\ epoch' = epoch + 1
  /\ newfd' = [newfd EXCEPT ![t] = -1]
  /\ pc' = [pc EXCEPT ![t] = "rot_ok"]
  /\ UNCHANGED <<logLevel, chans, prefix, nextFd, diag, lock, has_daemon,
                 daemons, pending, ret, sent, calls, admins, written, procs,
                 parse>>

\* Mutant: Rotate returns nil on every path.
MutRotateReturnNil(t) ==
  /\ Running
  /\ pc[t] \in {"rot_ok", "rot_fail"}
  /\ lock' = 0
  /\ pc' = [pc EXCEPT ![t] = "idle"]
  /\ ret' = [ret EXCEPT ![t] = Returned("nil")]
  /\ UNCHANGED <<logLevel, chans, dest, has_daemon, daemons, local, sent,
                 calls, admins, written, procs, parse>>

\* Rotate returns: the deferred lock.Unlock(), then nil or err.
RotateReturn(t) ==
  /\ Running
  /\ pc[t] \in {"rot_ok", "rot_fail"}
  /\ lock' = 0
  /\ pc' = [pc EXCEPT ![t] = "idle"]
  /\ ret' = [ret EXCEPT ![t] = Returned(IF pc[t] = "rot_ok" THEN "nil" ELSE "err")]
  /\ UNCHANGED <<logLevel, chans, dest, has_daemon, daemons, local, sent,
                 calls, admins, written, procs, parse>>

\* The daemon slots not yet used by a `go daemon()`.
FreeSlots == {d \in Daemons : daemons[d].pc = "none"}

\* Start: `go daemon()` unless has_daemon is set.
Start(t) ==
  /\ CanAdmin(t)
  /\ has_daemon \/ FreeSlots # {}
  /\ admins' = admins - 1
  /\ IF has_daemon
       THEN UNCHANGED daemons
       ELSE LET d == CHOOSE x \in FreeSlots : \A y \in FreeSlots : x <= y
            IN daemons' = [daemons EXCEPT ![d].pc = "launched"]
  /\ UNCHANGED <<logLevel, chans, dest, lock, has_daemon, pc, local, ret,
                 sent, calls, written, procs, parse>>

\* Stop: the test of has_daemon; without a daemon only has_daemon = false.
Stop(t) ==
  /\ CanAdmin(t)
  /\ admins' = admins - 1
  /\ IF has_daemon
       THEN /\ pc' = [pc EXCEPT ![t] = "stop_send"]
            /\ UNCHANGED has_daemon
       ELSE /\ has_daemon' = FALSE
            /\ UNCHANGED pc
  /\ UNCHANGED <<logLevel, chans, dest, lock, daemons, local, ret, sent, calls,
                 written, procs, parse>>

\* Stop: termsig <- '\x00', blocking while the channel's one slot is taken.
StopSend(t) ==
  /\ Running
  /\ pc[t] = "stop_send"
  /\ termsig < TermCap
  /\ termsig' = termsig + 1
  /\ pc' = [pc EXCEPT ![t] = "stop_clear"]
  /\ UNCHANGED <<logLevel, queue, quit_signal, dest, lock, has_daemon, daemons,
                 local, ret, sent, calls, admins, written, procs, parse>>

\* Stop: has_daemon = false
StopClear(t) ==
  /\ Running
  /\ pc[t] = "stop_clear"
  /\ has_daemon' = FALSE
  /\ pc' = [pc EXCEPT ![t] = "idle"]
  /\ UNCHANGED <<logLevel, chans, dest, lock, daemons, local, ret, sent, calls,
                 admins, written, procs, parse>>

\* ------------------------------------------------------------------------
\* daemon() of src/golog.go
\* ------------------------------------------------------------------------

\* Daemon d moves to p, holding m.
DaemonAt(d, p, m) == daemons' = [daemons EXCEPT ![d] = [pc |-> p, msg |-> m]]

\* The goroutine is scheduled for the first time: has_daemon = true
daemonStart(d) ==
  /\ Running
  /\ daemons[d].pc = "launched"
  /\ has_daemon' = TRUE
  /\ DaemonAt(d, "select", NoMsg)
  /\ UNCHANGED <<logLevel, chans, dest, lock, pc, local, ret, sent, calls,
                 admins, written, procs, parse>>

\* select, case <-termsig: return
daemonTerm(d) ==
  /\ Running
  /\ daemons[d].pc = "select"
  /\ termsig > 0
  /\ termsig' = termsig - 1
  /\ DaemonAt(d, "done", NoMsg)
  /\ UNCHANGED <<logLevel, queue, quit_signal, dest, lock, has_daemon, pc,
                 local, ret, sent, calls, admins, written, procs, parse>>

\* Mutant: the daemon reads the head of the queue and leaves it there.
MutRecvKeepsHead(d) ==
  /\ Running
  /\ daemons[d].pc = "select"
  /\ queue # << >>
  /\ DaemonAt(d, "lock", Head(queue))
  /\ UNCHANGED <<logLevel, chans, dest, lock, has_daemon, pc, local, ret, sent,
                 calls, admins, written, procs, parse>>

\* select, case msg := <-queue
daemonRecv(d) ==
  /\ Running
  /\ daemons[d].pc = "select"
  /\ queue # << >>
  /\ queue' = Tail(queue)
  /\ DaemonAt(d, "lock", Head(queue))
  /\ UNCHANGED <<logLevel, quit_signal, termsig, dest, lock, has_daemon, pc,
                 local, ret, sent, calls, admins, written, procs, parse>>

\* Mutant: the daemon writes without waiting for the lock.
MutDaemonLockNoWait(d) ==
  /\ Running
  /\ daemons[d].pc = "lock"
  /\ lock' = -d
  /\ DaemonAt(d, "write", daemons[d].msg)
  /\ UNCHANGED <<logLevel, chans, dest, has_daemon, pc, local, ret, sent,
                 calls, admins, written, procs, parse>>

\* lock.Lock()
daemonLock(d) ==
  /\ Running
  /\ daemons[d].pc = "lock"
  /\ lock = 0
  /\ lock' = -d
  /\ DaemonAt(d, "write", daemons[d].msg)
  /\ UNCHANGED <<logLevel, chans, dest, has_daemon, pc, local, ret, sent,
                 calls, admins, written, procs, parse>>

\* The line fmt.Fprintf puts on logger.writer; `epoch` is a ghost field.
Line(m) == [msg |-> m, fd |-> logger.writer, pre |-> prefix, epoch |-> epoch]

\* The body of `case msg := <-queue` after the write: a FATAL message is
\* signalled on quit_signal before lock.Unlock().
AfterWrite(m) == IF m.level = FATAL THEN "signal" ELSE "select"

\* fmt.Fprintf(logger.writer, ..., level_string[msg.level], ...) and, for a
\* message below FATAL, lock.Unlock().  An index outside level_string
\* panics, which ends the process.
daemonWrite(d) ==
  /\ Running
  /\ daemons[d].pc = "write"
  /\ IF daemons[d].msg.level \in DOMAIN level_string
       THEN /\ written' = Append(written, Line(daemons[d].msg))
            /\ DaemonAt(d, AfterWrite(daemons[d].msg),
                        IF daemons[d].msg.level = FATAL THEN daemons[d].msg ELSE NoMsg)
            /\ lock' = IF daemons[d].msg.level = FATAL THEN lock ELSE 0
            /\ UNCHANGED procs
       ELSE /\ exitCode' = PanicCode
            /\ UNCHANGED <<written, daemons, lock, exiter>>
  /\ UNCHANGED <<logLevel, chans, dest, has_daemon, pc, local, ret, sent,
                 calls, admins, parse>>

\* quit_signal <- '\x00', blocking while the channel's one slot is taken;
\* then lock.Unlock() and back to the select
daemonSignal(d) ==
  /\ Running
  /\ daemons[d].pc = "signal"
  /\ quit_signal < QuitCap
  /\ quit_signal' = quit_signal + 1
  /\ lock' = 0
  /\ DaemonAt(d, "select", NoMsg)
  /\ UNCHANGED <<logLevel, queue, termsig, dest, has_daemon, pc, local, ret,
                 sent, calls, admins, written, procs, parse>>

\* ------------------------------------------------------------------------
\* daemon() of src/unnamed/part_000: no has_daemon, no termsig, and the
\* threshold is tested again before the write
\* ------------------------------------------------------------------------

daemonStart0(d) ==
  /\ Running
  /\ daemons[d].pc = "launched"
  /\ DaemonAt(d, "select", NoMsg)
  /\ UNCHANGED <<logLevel, chans, dest, lock, has_daemon, pc, local, ret, sent,
                 calls, admins, written, procs, parse>>

\* if msg.level >= logLevel { fmt.Fprintf(...) }
daemonWrite0(d) ==
  /\ Running
  /\ daemons[d].pc = "write"
  /\ IF daemons[d].msg.level >= logLevel
       THEN written' = Append(written, Line(daemons[d].msg))
       ELSE UNCHANGED written
  /\ DaemonAt(d, AfterWrite(daemons[d].msg),
              IF daemons[d].msg.level = FATAL THEN daemons[d].msg ELSE NoMsg)
  /\ lock' = IF daemons[d].msg.level = FATAL THEN lock ELSE 0
  /\ UNCHANGED <<logLevel, chans, dest, has_daemon, pc, local, ret, sent,
                 calls, admins, procs, parse>>

\* ------------------------------------------------------------------------
\* Specifications
\* ------------------------------------------------------------------------

LogStep(t) ==
  \/ Error(t) \/ Warn(t) \/ Info(t) \/ Debug(t) \/ Fatal(t)
  \/ Enqueue(t) \/ FatalExit(t)

SetStep(t) ==
  \/ \E l \in LevelArgs : SetLogLevel(t, l)
  \/ \E p \in PrefixArgs : SetPrefix(t, p)
  \/ \E fd \in FdArgs : OpenFd(t, fd)

FileStep(t) ==
  \/ \E f \in PathArgs, ok \in BOOLEAN : Open(t, f, ok)
  \/ OpenReturn(t)
  \/ \E ok \in BOOLEAN : Rotate(t, ok)
  \/ RotateSwap(t) \/ RotateReturn(t)

LifeStep(t) == Start(t) \/ Stop(t) \/ StopSend(t) \/ StopClear(t)

DaemonLoop(d) ==
  \/ daemonStart(d) \/ daemonRecv(d) \/ daemonLock(d)
  \/ daemonWrite(d) \/ daemonSignal(d)

DaemonStep(d) == DaemonLoop(d) \/ daemonTerm(d)

DaemonStep0(d) ==
  \/ daemonStart0(d) \/ daemonRecv(d) \/ daemonLock(d)
  \/ daemonWrite0(d) \/ daemonSignal(d)

\* src/golog.go
Next ==
  \/ \E t \in Threads : LogStep(t) \/ SetStep(t) \/ FileStep(t) \/ LifeStep(t)
  \/ \E d \in Daemons : DaemonStep(d)

Spec == Init /\ [][Next]_vars

\* src/golog.go, started with the queue nearly full: the application logs
\* below FATAL, sets the threshold and opens a log file
NextBacklog ==
  \/ \E t \in Threads : Error(t) \/ Warn(t) \/ Info(t) \/ Debug(t) \/ Enqueue(t)
  \/ \E t \in Threads, l \in LevelArgs : SetLogLevel(t, l)
  \/ \E t \in Threads, f \in PathArgs, ok \in BOOLEAN : Open(t, f, ok)
  \/ \E t \in Threads : OpenReturn(t)
  \/ \E d \in Daemons : daemonStart(d) \/ daemonRecv(d) \/ daemonLock(d) \/ daemonWrite(d)

SpecBacklog == InitBacklog /\ [][NextBacklog]_vars

\* src/golog.go, started with the queue nearly full, under fair scheduling:
\* the application calls Info and Open, nobody calls Stop.  A goroutine that
\* can take its next step inside a call takes it, and so does the daemon.
NextLive ==
  \/ \E t \in Threads : Info(t) \/ Enqueue(t) \/ OpenReturn(t)
  \/ \E t \in Threads, f \in PathArgs, ok \in BOOLEAN : Open(t, f, ok)
  \/ \E d \in Daemons : daemonStart(d) \/ daemonRecv(d) \/ daemonLock(d) \/ daemonWrite(d)

SpecLive ==
  /\ InitBacklog
  /\ [][NextLive]_vars
  /\ \A t \in Threads : WF_vars(Enqueue(t)) /\ WF_vars(OpenReturn(t))
  /\ \A d \in Daemons : /\ WF_vars(daemonStart(d)) /\ WF_vars(daemonRecv(d))
                        /\ WF_vars(daemonLock(d)) /\ WF_vars(daemonWrite(d))

\* src/golog.go: the application logs at INFO, sets the threshold, opens a
\* file, redirects to a stream and rotates
NextRotate ==
  \/ \E t \in Threads : Info(t) \/ Enqueue(t)
  \/ \E t \in Threads, f \in PathArgs, ok \in BOOLEAN : Open(t, f, ok)
  \/ \E t \in Threads : OpenReturn(t)
  \/ \E t \in Threads, ok \in BOOLEAN : Rotate(t, ok)
  \/ \E t \in Threads : RotateSwap(t) \/ RotateReturn(t)
  \/ \E t \in Threads, fd \in FdArgs : OpenFd(t, fd)
  \/ \E t \in Threads, l \in LevelArgs : SetLogLevel(t, l)
  \/ \E d \in Daemons : daemonStart(d) \/ daemonRecv(d) \/ daemonLock(d) \/ daemonWrite(d)

SpecRotate == InitRotate /\ [][NextRotate]_vars

\* src/golog.go under fair scheduling: the application logs at INFO and
\* calls Start and Stop.  A goroutine inside a call takes its next step when
\* it can, and so does a daemon; a select that is ready again and again on
\* a channel eventually receives from it.
NextRestart ==
  \/ \E t \in Threads : Info(t) \/ Enqueue(t)
  \/ \E t \in Threads : Start(t) \/ Stop(t) \/ StopSend(t) \/ StopClear(t)
  \/ \E d \in Daemons : daemonStart(d) \/ daemonRecv(d) \/ daemonLock(d)
  \/ \E d \in Daemons : daemonWrite(d) \/ daemonTerm(d)

SpecRestart ==
  /\ InitRestart
  /\ [][NextRestart]_vars
  /\ \A t \in Threads : /\ WF_vars(Enqueue(t)) /\ WF_vars(StopSend(t))
                        /\ WF_vars(StopClear(t))
  /\ \A d \in Daemons : /\ WF_vars(daemonStart(d)) /\ WF_vars(daemonLock(d))
                        /\ WF_vars(daemonWrite(d))
                        /\ SF_vars(daemonRecv(d)) /\ SF_vars(daemonTerm(d))

\* ToLevel on its own
NextToLevel == ToLevelCall

SpecToLevel == InitToLevel /\ [][NextToLevel]_vars

\* src/unnamed/part_000
NextPart000 ==
  \/ \E t \in Threads : LogStep(t) \/ SetStep(t) \/ FileStep(t)
  \/ \E d \in Daemons : DaemonStep0(d)

SpecPart000 == Init /\ [][NextPart000]_vars

\* ------------------------------------------------------------------------
\* What has been logged, and where it is
\* ------------------------------------------------------------------------

\* The message has been written to a destination.
IsWritten(m) == \E i \in DOMAIN written : written[i].msg = m

\* In how many places the message <<t, n>> is: in the queue, with a daemon
\* that has not written it yet, in the output.
InQueue(t, n) == {i \in DOMAIN queue : queue[i].src = t /\ queue[i].seq = n}
Held(t, n) == {d \in Daemons : /\ daemons[d].pc \in {"lock", "write"}
                                /\ daemons[d].msg.src = t
                                /\ daemons[d].msg.seq = n}
InOutput(t, n) == {i \in DOMAIN written : written[i].msg.src = t /\ written[i].msg.seq = n}
Places(t, n) == Cardinality(InQueue(t, n)) + Cardinality(Held(t, n))
                  + Cardinality(InOutput(t, n))

\* Every message there is: being sent, queued, with a daemon, written.
Messages ==
  {pending[t] : t \in Threads} \cup {queue[i] : i \in DOMAIN queue}
    \cup {daemons[d].msg : d \in Daemons} \cup {written[i].msg : i \in DOMAIN written}

\* Where a goroutine is while it is inside Rotate.
RotatePcs == {"rot_ok", "rot_fail", "rot_send_err", "rot_send_ok", "rot_swap"}

\* The daemons that are scheduled and have not returned.
RunningDaemons == {d \in Daemons : daemons[d].pc \in {"select", "lock", "write", "signal"}}

\* ------------------------------------------------------------------------
\* Claims
\* ------------------------------------------------------------------------

\* C1: a goroutine that called Fatal or Fatalf reaches os.Exit(1) only after
\* the daemon has written that call's own FATAL message, also with two
\* goroutines calling Fatal at the same time.
C1_FatalBarrier ==
  exitCode = 1 =>
    \E i \in DOMAIN written : written[i].msg.src = exiter /\ written[i].msg.level = FATAL

\* C2: whatever the threshold was set to, the daemon signals the caller of
\* Fatal (which then exits with code 1) only for a FATAL message it has
\* written: FATAL is never filtered.
C2_FatalNeverFiltered ==
  /\ exitCode \in {NotExited, 1}
  /\ \A d \in Daemons : daemons[d].pc = "signal" => IsWritten(daemons[d].msg)

\* C3: a call to Debug/Info/Warn/Error at level L with threshold T is dropped
\* exactly when L < T: a dropped call had L < T and its goroutine never waits
\* on the queue for it, also with the queue full; a message below FATAL that is
\* being sent, queued, held or written has L >= T for the threshold T its call
\* read, and it is in the output at most once.
C3_CallSiteFilter ==
  /\ \A t \in Threads : ret[t].val = "dropped" => ret[t].level < ret[t].thr
  /\ \A m \in Messages : m.seen # NoRead => m.level >= m.seen
  /\ \A t \in Threads : pc[t] = "send" =>
        /\ pending[t].level >= pending[t].seen
        /\ pending[t].seq = sent[t] + 1
  /\ \A t \in Threads : \A n \in 1..sent[t] : Cardinality(InOutput(t, n)) <= 1

\* C3 witness: a call below the threshold has returned although the queue
\* was full, and a call at the threshold has produced its one line.
C3_Witness ==
  /\ \E t \in Threads : /\ ret[t].val = "dropped" /\ ret[t].full
                        /\ pc[t] = "idle" /\ sent[t] = 0
  /\ \E u \in Threads : /\ sent[u] = 1
                        /\ \E i \in DOMAIN written :
                              /\ written[i].msg.src = u
                              /\ written[i].msg.level = written[i].msg.seen

\* C4: every line the daemon writes has a level >= the threshold at the
\* moment of the write.
C4_DeliveryInvariant ==
  [][Len(written') > Len(written) =>
       written'[Len(written')].msg.level >= logLevel]_vars

\* C5: two messages of one goroutine are written in the order they were
\* enqueued, whatever Start and Stop calls are made meanwhile.
C5_ProducerFifo ==
  \A i, j \in DOMAIN written :
    (i < j /\ written[i].msg.src = written[j].msg.src)
      => written[i].msg.seq < written[j].msg.seq

\* C6: at most one daemon goroutine is running, for every interleaving of
\* init, Start and Stop.
C6_SingleDaemon == Cardinality(RunningDaemons) <= 1

\* C7: the queue never holds more than QueueCap messages; a goroutine that is
\* sending while the queue is full stays where it is, its message kept; and
\* when it leaves its send, its message is the one just put on the queue.
C7_Backpressure ==
  /\ [](Len(queue) <= QueueCap)
  /\ [][\A t \in Threads :
          /\ (pc[t] \in SendPcs /\ Len(queue) = QueueCap)
                => (pc'[t] = pc[t] /\ pending'[t] = pending[t])
          /\ (pc[t] \in SendPcs /\ pc'[t] # pc[t])
                => (queue' = Append(queue, pending[t]) /\ sent'[t] = sent[t] + 1)]_vars

\* C7 witness: the queue is full, no daemon has yet taken anything off it,
\* and a goroutine is blocked in its send.
C7_Witness ==
  /\ Len(queue) = QueueCap
  /\ \A d \in Daemons : daemons[d].pc \in {"none", "launched"}
  /\ \E t \in Threads : pc[t] = "send" /\ pending[t] # NoMsg

\* C8: every message that was enqueued is in exactly one place (the queue, a
\* daemon that has still to write it, the output), and nothing else is there.
C8_NoLossNoDup ==
  /\ \A t \in Threads : \A n \in 1..sent[t] : Places(t, n) = 1
  /\ \A i \in DOMAIN queue : queue[i].src \in Threads /\ queue[i].seq \in 1..sent[queue[i].src]
  /\ \A i \in DOMAIN written :
        written[i].msg.src \in Threads /\ written[i].msg.seq \in 1..sent[written[i].msg.src]

\* C8 witness: one message is queued and one is held by a daemon, after the
\* destination was replaced and a second daemon was started.
C8_Witness ==
  /\ queue # << >>
  /\ \E d \in Daemons : daemons[d].pc \in {"lock", "write"}
  /\ logger # NewFd(Stderr)
  /\ Cardinality(RunningDaemons) = 2

\* C10: when NewFile fails, Open changes neither the destination nor the
\* queue, sends nothing, holds the lock until it returns, and returns err
\* with the lock released.
C10_OpenFailure ==
  /\ [](\A t \in Threads : pc[t] = "open_fail" => (lock = t /\ pending[t] = NoMsg))
  /\ [][\A t \in Threads :
          /\ (pc[t] # "open_fail" /\ pc'[t] = "open_fail")
                => (logger' = logger /\ queue' = queue /\ sent' = sent)
          /\ (pc[t] = "open_fail" /\ pc'[t] # "open_fail")
                => /\ logger' = logger /\ queue' = queue /\ sent' = sent
                   /\ pc'[t] = "idle" /\ ret'[t].val = "err" /\ lock' = 0]_vars

\* C10 witness: Open has failed and returned err; the destination is still
\* os.Stderr, nothing was sent and the lock is free.
C10_Witness ==
  \E t \in Threads :
    /\ pc[t] = "idle" /\ ret[t].val = "err" /\ diag = 1
    /\ logger = NewFd(Stderr) /\ sent[t] = 0 /\ lock = 0

\* C9: under fair scheduling, with a daemon running and no Stop, every
\* message that is on the queue is eventually written.
C9_EventualDelivery ==
  \A t \in Threads \cup {MainThread} : \A n \in 1..QueueCap :
    (InQueue(t, n) # {}) ~> (InOutput(t, n) # {})

\* C11: when reopening the path fails, Rotate leaves the destination as it
\* is, builds an ERROR message exactly when the threshold is <= ERROR and puts
\* it on the queue, keeps the lock until it returns, and returns err.
C11_RotateFailure ==
  /\ [](\A t \in Threads :
         /\ pc[t] \in {"rot_send_err", "rot_fail"} => lock = t
         /\ pc[t] = "rot_send_err" =>
               /\ pending[t].level = ERROR /\ pending[t].seen <= ERROR
               /\ pending[t].text = "Reopen log file")
  /\ [][\A t \in Threads :
          /\ (pc[t] = "idle" /\ pc'[t] \in {"rot_send_err", "rot_fail"})
                => /\ logger' = logger /\ queue' = queue
                   /\ (pc'[t] = "rot_send_err") <=> (logLevel <= ERROR)
          /\ (pc[t] = "rot_send_err" /\ pc'[t] # pc[t])
                => /\ pc'[t] = "rot_fail" /\ logger' = logger
                   /\ queue' = Append(queue, pending[t])
          /\ (pc[t] = "rot_fail" /\ pc'[t] # pc[t])
                => /\ pc'[t] = "idle" /\ ret'[t].val = "err" /\ lock' = 0
                   /\ logger' = logger /\ queue' = queue]_vars

\* C11 witness: Rotate has failed on a.log and returned err; the file opened
\* by Open is still the destination and the ERROR message was written to it.
C11_Witness ==
  \E t \in Threads :
    /\ pc[t] = "idle" /\ ret[t].val = "err" /\ lock = 0
    /\ logger = [writer |-> FirstFileFd, path |-> "a.log"]
    /\ \E i \in DOMAIN written :
          /\ written[i].msg.src = t /\ written[i].msg.level = ERROR
          /\ written[i].msg.text = "Reopen log file"
          /\ written[i].fd = FirstFileFd

\* C12: Rotate on a destination without a path changes nothing but the lock,
\* which it takes and releases: it opens no file, builds and sends no
\* message, leaves the destination as it is, and returns nil.
C12_RotateNoPath ==
  [][\A t \in Threads :
       /\ (pc[t] = "idle" /\ pc'[t] \in RotatePcs /\ logger.path = "")
             => /\ pc'[t] = "rot_ok" /\ lock' = t
                /\ UNCHANGED <<logLevel, chans, dest, has_daemon, daemons,
                               local, sent, written>>
       /\ (pc[t] = "idle" /\ pc'[t] = "rot_ok") => logger.path = ""
       /\ (pc[t] = "rot_ok" /\ pc'[t] # pc[t])
             => /\ pc'[t] = "idle" /\ ret'[t].val = "nil" /\ lock' = 0
                /\ UNCHANGED <<logLevel, chans, dest, has_daemon, daemons,
                               local, sent, written>>]_vars

\* C12 witness: OpenFd(os.Stdout) and Rotate were called; Rotate has returned
\* nil, no file was opened, nothing was sent, the destination is os.Stdout.
C12_Witness ==
  \E t \in Threads :
    /\ pc[t] = "idle" /\ ret[t].val = "nil" /\ lock = 0
    /\ logger = NewFd(Stdout) /\ nextFd = FirstFileFd
    /\ queue = << >> /\ written = << >> /\ \A u \in Threads : sent[u] = 0

\* C13: when Rotate succeeds on a destination with a path, the destination
\* it installs is the handle it has just opened, never written to before,
\* with the path the destination had; and every line the daemon writes goes
\* to the handle that is the destination at that moment, so none goes to the
\* replaced one.
C13_RotateSuccess ==
  /\ [][\A t \in Threads :
          (pc[t] = "rot_swap" /\ pc'[t] # pc[t])
             => /\ pc'[t] = "rot_ok" /\ lock = t
                /\ logger'.writer = newfd[t] /\ logger'.writer # logger.writer
                /\ \A i \in DOMAIN written : written[i].fd # logger'.writer
                /\ logger.path # "" /\ logger'.path = logger.path]_vars
  /\ [][Len(written') > Len(written)
          => /\ written'[Len(written')].fd = logger.writer
             /\ logger' = logger]_vars

\* C14: the destination and the prefix change only in a step of a goroutine
\* that holds the lock, and never while a daemon holds it for its write.
C14_MutationsUnderLock ==
  [][(logger' # logger \/ prefix' # prefix)
       => (lock' \in Threads /\ lock >= 0)]_vars

\* All goroutines have been scheduled: no call is under way, every launched
\* daemon has run and is back at its select with nothing left to receive.
Settled ==
  /\ Running
  /\ \A t \in Threads : pc[t] = "idle"
  /\ \A d \in Daemons : daemons[d].pc \in {"none", "select", "done"}
  /\ \A d \in Daemons : daemons[d].pc = "select" => (queue = << >> /\ termsig = 0)

\* C17: once all goroutines have been scheduled, has_daemon is true exactly
\* when a daemon is running, and with no daemon running no termination
\* signal is pending.
C17_FlagConsistent ==
  Settled => /\ has_daemon <=> (RunningDaemons # {})
             /\ (RunningDaemons = {}) => termsig = 0

\* C20: every message built, queued, held by a daemon or written has a level
\* in DEBUG..FATAL, whatever the threshold is, and no daemon has aborted on
\* its lookup in level_string.
C20_LevelRange ==
  /\ exitCode # PanicCode
  /\ \A m \in Messages \ {NoMsg} : m.level \in DOMAIN level_string

\* C20 witness: the threshold is INVALID, and a message accepted under that
\* threshold has been looked up and written by the daemon.
C20_Witness ==
  /\ logLevel = INVALID
  /\ \E i \in DOMAIN written : written[i].msg.seen = INVALID

\* C15: a daemon returns only from its select, by receiving a termination
\* signal, and a signal is sent only by Stop; and a daemon that is running
\* when Stop has found has_daemon set eventually returns.
C15_TerminationOnStop ==
  /\ [][\A d \in Daemons :
          (daemons[d].pc # "done" /\ daemons'[d].pc = "done")
             => /\ daemons[d].pc = "select" /\ lock # -d
                /\ termsig' = termsig - 1]_vars
  /\ [][termsig' > termsig
          => \E t \in Threads : pc[t] = "stop_send" /\ pc'[t] = "stop_clear"]_vars
  /\ \A d \in Daemons :
        (d \in RunningDaemons /\ \E t \in Threads : pc[t] = "stop_send")
           ~> (daemons[d].pc = "done")

\* Two strings are equal ignoring letter case: the same length, and at each
\* place the same character or the two cases of one letter.
SameIgnoringCase(a, b) ==
  /\ Len(a) = Len(b)
  /\ \A i \in 1..Len(a) :
        \/ a[i] = b[i]
        \/ <<a[i], b[i]>> \in AsciiCase
        \/ <<b[i], a[i]>> \in AsciiCase

\* C16: ToLevel returns the level whose name equals the input ignoring
\* letter case, and INVALID for every other string.
C16_ToLevel ==
  level # NotParsed =>
    /\ \A l \in DOMAIN level_chars :
          SameIgnoringCase(str, level_chars[l]) => level = l
    /\ (\A l \in DOMAIN level_chars : ~SameIgnoringCase(str, level_chars[l]))
          => level = INVALID

\* Where a goroutine is while it is inside Open.
OpenPcs == {"open_send", "open_ok", "open_fail"}

\* C18: the state `lock holder blocked on a full queue while a daemon is
\* blocked on the lock' is never reached, and under fair scheduling every
\* call to Open or Rotate returns.
C18_NoDeadlock ==
  /\ [](~ \E t \in Threads :
            /\ lock = t
            /\ pc[t] \in {"open_send", "rot_send_err", "rot_send_ok"}
            /\ Len(queue) = QueueCap
            /\ \E d \in Daemons : daemons[d].pc = "lock")
  /\ \A t \in Threads : (pc[t] \in OpenPcs \cup RotatePcs) ~> (pc[t] = "idle")

\* Only the daemon launched by init() has ever been launched.
SingleDaemon == \A d \in Daemons \ {1} : daemons[d].pc = "none"

\* C19 as stated: with a single daemon, the message of Open and of Rotate is
\* written to the destination its call makes current (for a failed Rotate,
\* the one it leaves current).
C19_PlacementAtCall ==
  SingleDaemon =>
    \A i \in DOMAIN written :
      written[i].msg.dst # NoDst => written[i].epoch = written[i].msg.dst

\* C19 as amended: with a single daemon, every line is written to the
\* destination that is current at the moment of the write, and no write is
\* made while a call to Open or Rotate is under way; so the message of Open
\* and of Rotate goes to the destination its call makes or leaves current or
\* to one installed later, never to one the call replaced.
C19_PlacementAtWrite ==
  /\ [](SingleDaemon =>
          \A i \in DOMAIN written :
            written[i].msg.dst # NoDst => written[i].epoch >= written[i].msg.dst)
  /\ [][(SingleDaemon /\ Len(written') > Len(written))
          => /\ written'[Len(written')].fd = logger.writer
             /\ written'[Len(written')].epoch = epoch
             /\ \A t \in Threads : pc[t] \notin OpenPcs \cup RotatePcs]_vars

\* C19 witness: with a single daemon, "Log ready." was written to the file
\* Open opened, and after a successful Rotate "Reopened log file" was written
\* to the handle Rotate opened.
C19_Witness ==
  /\ SingleDaemon
  /\ \E i, j \in DOMAIN written :
        /\ j < i
        /\ written[j].msg.text = "Log ready."
        /\ written[j].epoch = written[j].msg.dst /\ written[j].fd = FirstFileFd
        /\ written[i].msg.text = "Reopened log file"
        /\ written[i].epoch = written[i].msg.dst /\ written[i].fd = FirstFileFd + 1

====
